---- MODULE Spec2Model ----
(***************************************************************************)
(* Stateful precompiles of subnet-evm: the native minter                   *)
(* (precompile/contract_native_minter.go), the fee config manager and the  *)
(* xChainECRecover echo stub.  Hashes, addresses and calldata are byte     *)
(* sequences of their real width (32, 20 and N*32 bytes); big.Int values   *)
(* are their big-endian magnitude without leading zero bytes, so 256-bit   *)
(* values and sums above 2^256 are represented exactly.                    *)
(***************************************************************************)
EXTENDS Integers, Sequences, FiniteSets, TLC

VARIABLES stateDB, last, lastSet, ncalls

vars == <<stateDB, last, lastSet, ncalls>>

(***************************************************************************)
(* Bounds of the exploration                                               *)
(***************************************************************************)
\* number of handler calls in one behaviour
MaxCalls == 3
\* gas supplied above the handler's cost in the well-funded calls
GasSlack == 7

(***************************************************************************)
(* Bytes, hashes, addresses (go-ethereum common)                           *)
(***************************************************************************)
HashLength == 32
AddressLength == 20

Zeros(n) == [i \in 1..n |-> 0]

\* common.BytesToHash / common.BytesToAddress: SetBytes crops b from the left
\* when it is longer than n and left-pads it with zeros when it is shorter.
CropPadLeft(b, n) ==
    IF Len(b) >= n THEN SubSeq(b, Len(b) - n + 1, Len(b))
                   ELSE Zeros(n - Len(b)) \o b

BytesToHash(b) == CropPadLeft(b, HashLength)

BytesToAddress(b) == CropPadLeft(b, AddressLength)

\* common.Address.Hash(): the address right-aligned in a 32-byte word
AddressHash(a) == BytesToHash(a)

\* the composite literal common.Hash{byte(i)}: element 0 is byte(i), the
\* other 31 bytes are zero
HashLiteral(i) == <<i % 256>> \o Zeros(HashLength - 1)

(***************************************************************************)
(* math/big: a value is its magnitude, big-endian, no leading zero byte    *)
(***************************************************************************)
RECURSIVE StripZeros(_)
StripZeros(b) ==
    IF b = <<>> THEN <<>>
    ELSE IF Head(b) = 0 THEN StripZeros(Tail(b)) ELSE b

\* new(big.Int).SetBytes(buf)
BigSetBytes(buf) == StripZeros(buf)

\* x.Bytes()
BigBytes(x) == x

\* x.FillBytes(make([]byte, n)): n >= Len(x) in every use
BigFillBytes(x, n) == Zeros(n - Len(x)) \o x

Reverse(s) == [i \in 1..Len(s) |-> s[Len(s) + 1 - i]]

\* addition of two little-endian digit strings with carry
RECURSIVE AddLE(_, _, _)
AddLE(x, y, carry) ==
    IF x = <<>> /\ y = <<>>
    THEN IF carry = 0 THEN <<>> ELSE <<carry>>
    ELSE LET dx == IF x = <<>> THEN 0 ELSE Head(x)
             dy == IF y = <<>> THEN 0 ELSE Head(y)
             s  == dx + dy + carry
             tx == IF x = <<>> THEN <<>> ELSE Tail(x)
             ty == IF y = <<>> THEN <<>> ELSE Tail(y)
         IN  <<s % 256>> \o AddLE(tx, ty, s \div 256)

\* new(big.Int).Add(x, y): arbitrary precision
BigAdd(x, y) == StripZeros(Reverse(AddLE(Reverse(x), Reverse(y), 0)))

\* common.BigToHash(b) = BytesToHash(b.Bytes())
BigToHash(x) == BytesToHash(BigBytes(x))

\* common.Hash.Big()
HashBig(h) == BigSetBytes(h)

(***************************************************************************)
(* Addresses                                                               *)
(***************************************************************************)
UserAddr(n) == Zeros(AddressLength - 1) \o <<n>>

\* common.Address{}
ZeroAddr == Zeros(AddressLength)
AddrA == UserAddr(161)
AddrB == UserAddr(178)
AddrC == UserAddr(195)
AddrD == UserAddr(212)
AddrE == UserAddr(229)

ContractNativeMinterAddress == <<2>> \o Zeros(AddressLength - 2) \o <<1>>
FeeConfigManagerAddress == <<2>> \o Zeros(AddressLength - 2) \o <<3>>

Precompiles == {ContractNativeMinterAddress, FeeConfigManagerAddress}
Users == {ZeroAddr, AddrA, AddrB, AddrC, AddrD, AddrE}
AllAddrs == Users \cup Precompiles

(***************************************************************************)
(* Fee config field keys                                                   *)
(***************************************************************************)
gasLimitKey == 0
targetBlockRateKey == 1
minBaseFeeKey == 2
targetGasKey == 3
baseFeeChangeDenominatorKey == 4
minBlockGasCostKey == 5
maxBlockGasCostKey == 6
blockGasCostStepKey == 7
minKey == gasLimitKey
maxKey == blockGasCostStepKey

(***************************************************************************)
(* StateDB: accounts (existence, balance) and per-contract storage         *)
(***************************************************************************)
ZeroHash == Zeros(HashLength)
BigZero == <<>>

\* the storage of an account maps the keys of its non-zero slots to their values
EmptyStorage == [k \in {} |-> ZeroHash]

EmptyStateDB ==
    [exist   |-> {},
     balance |-> [a \in AllAddrs |-> BigZero],
     storage |-> [c \in Precompiles |-> EmptyStorage]]

Exist(st, a) == a \in st.exist

GetBalance(st, a) == st.balance[a]

\* a new account has zero balance and empty storage
CreateAccount(st, a) ==
    [exist   |-> st.exist \cup {a},
     balance |-> [st.balance EXCEPT ![a] = BigZero],
     storage |-> IF a \in Precompiles
                 THEN [st.storage EXCEPT ![a] = EmptyStorage]
                 ELSE st.storage]

\* AddBalance works on the account's state object, created when missing
AddBalance(st, a, amount) ==
    [st EXCEPT !.exist = @ \cup {a},
               !.balance[a] = BigAdd(@, amount)]

\* a slot that was never written reads as the zero hash
GetState(st, c, key) ==
    IF key \in DOMAIN st.storage[c] THEN st.storage[c][key] ELSE ZeroHash

\* SetState works on the contract's state object, created when missing;
\* storing the zero hash clears the slot
SetState(st, c, key, value) ==
    LET m    == st.storage[c]
        keys == IF value = ZeroHash THEN DOMAIN m \ {key} ELSE DOMAIN m \cup {key}
    IN  [st EXCEPT !.exist = @ \cup {c},
                   !.storage[c] = [k \in keys |-> IF k = key THEN value ELSE m[k]]]

(***************************************************************************)
(* Gas                                                                     *)
(***************************************************************************)
MintGasCost == 30000
SetFeeConfigGasCost == 40000
ModifyAllowListGasCost == 20000
ReadAllowListGasCost == 5000

ErrNil == "nil"
ErrOutOfGas == "OutOfGas"
ErrWriteProtection == "WriteProtection"
ErrInvalidInputLength == "InvalidInputLength"
ErrPermissionDenied == "PermissionDenied"

deductGas(suppliedGas, requiredGas) ==
    IF suppliedGas < requiredGas
    THEN [remainingGas |-> 0, err |-> ErrOutOfGas]
    ELSE [remainingGas |-> suppliedGas - requiredGas, err |-> ErrNil]

(***************************************************************************)
(* Allow list                                                              *)
(***************************************************************************)
AllowListNoRole == BigToHash(<<>>)
AllowListEnabled == BigToHash(<<1>>)
AllowListAdmin == BigToHash(<<2>>)

IsEnabled(role) == role \in {AllowListAdmin, AllowListEnabled}

IsAdmin(role) == role = AllowListAdmin

getAllowListStatus(st, precompileAddr, address) ==
    GetState(st, precompileAddr, AddressHash(address))

setAllowListRole(st, precompileAddr, address, role) ==
    SetState(st, precompileAddr, AddressHash(address), role)

GetContractNativeMinterStatus(st, address) ==
    getAllowListStatus(st, ContractNativeMinterAddress, address)

SetContractNativeMinterStatus(st, address, role) ==
    setAllowListRole(st, ContractNativeMinterAddress, address, role)

GetFeeConfigManagerStatus(st, address) ==
    getAllowListStatus(st, FeeConfigManagerAddress, address)

SetFeeConfigManagerStatus(st, address, role) ==
    setAllowListRole(st, FeeConfigManagerAddress, address, role)

\* AllowListConfig.Configure: every listed address becomes Admin
RECURSIVE Configure(_, _, _)
Configure(st, precompileAddr, admins) ==
    IF admins = {} THEN st
    ELSE LET a == CHOOSE x \in admins : TRUE
         IN  Configure(setAllowListRole(st, precompileAddr, a, AllowListAdmin),
                       precompileAddr, admins \ {a})

(***************************************************************************)
(* Calldata                                                                *)
(***************************************************************************)
\* returnPackedElement(input, index): the index-th 32-byte word
returnPackedElement(input, index) ==
    SubSeq(input, index * HashLength + 1, (index + 1) * HashLength)

\* the outcome of one handler call
Result(retNil, ret, remainingGas, err, st) ==
    [retNil |-> retNil, ret |-> ret, remainingGas |-> remainingGas,
     err |-> err, st |-> st]

(***************************************************************************)
(* Native minter                                                           *)
(***************************************************************************)
mintInputLen == HashLength + HashLength

\* PackMintInput without the 4-byte selector
PackMintBody(address, amount) ==
    AddressHash(address) \o BigFillBytes(amount, 32)

\* UnpackMintInput that refuses only inputs that are too short
UnpackMintInputAtLeast(input) ==
    IF Len(input) < mintInputLen
    THEN [to |-> ZeroAddr, amount |-> BigZero, err |-> ErrInvalidInputLength]
    ELSE [to     |-> BytesToAddress(returnPackedElement(input, 0)),
          amount |-> BigSetBytes(returnPackedElement(input, 1)),
          err    |-> ErrNil]

UnpackMintInput(input) ==
    IF Len(input) # mintInputLen
    THEN [to |-> ZeroAddr, amount |-> BigZero, err |-> ErrInvalidInputLength]
    ELSE [to     |-> BytesToAddress(returnPackedElement(input, 0)),
          amount |-> BigSetBytes(returnPackedElement(input, 1)),
          err    |-> ErrNil]

\* MintCredit with the sum kept in one 256-bit word
MintCreditWrapping(st, to, amount) ==
    LET st1 == IF ~Exist(st, to) THEN CreateAccount(st, to) ELSE st
        st2 == AddBalance(st1, to, amount)
    IN  [st2 EXCEPT !.balance[to] = BigSetBytes(BigToHash(@))]

\* MintCredit that creates the receiver's account whether it exists or not
MintCreditRecreate(st, to, amount) ==
    AddBalance(CreateAccount(st, to), to, amount)

\* lines 105-110: create the receiver when missing, then credit it
MintCredit(st, to, amount) ==
    LET st1 == IF ~Exist(st, to) THEN CreateAccount(st, to) ELSE st
    IN  AddBalance(st1, to, amount)

\* createMintNativeCoin that goes on after deductGas has failed
createMintNativeCoinIgnoreGas(st, caller, input, suppliedGas, readOnly) ==
    LET g == deductGas(suppliedGas, MintGasCost)
        u == UnpackMintInput(input)
        callerStatus == getAllowListStatus(st, ContractNativeMinterAddress, caller)
    IN  IF readOnly THEN Result(TRUE, <<>>, g.remainingGas, ErrWriteProtection, st)
        ELSE IF u.err # ErrNil THEN Result(TRUE, <<>>, g.remainingGas, u.err, st)
        ELSE IF ~IsEnabled(callerStatus)
             THEN Result(TRUE, <<>>, g.remainingGas, ErrPermissionDenied, st)
        ELSE Result(FALSE, <<>>, g.remainingGas, ErrNil, MintCredit(st, u.to, u.amount))

\* createMintNativeCoin that checks the caller before it decodes the input
createMintNativeCoinPermissionFirst(st, caller, input, suppliedGas, readOnly) ==
    LET g == deductGas(suppliedGas, MintGasCost)
        u == UnpackMintInput(input)
        callerStatus == getAllowListStatus(st, ContractNativeMinterAddress, caller)
    IN  IF g.err # ErrNil THEN Result(TRUE, <<>>, 0, g.err, st)
        ELSE IF readOnly THEN Result(TRUE, <<>>, g.remainingGas, ErrWriteProtection, st)
        ELSE IF ~IsEnabled(callerStatus)
             THEN Result(TRUE, <<>>, g.remainingGas, ErrPermissionDenied, st)
        ELSE IF u.err # ErrNil THEN Result(TRUE, <<>>, g.remainingGas, u.err, st)
        ELSE Result(FALSE, <<>>, g.remainingGas, ErrNil, MintCredit(st, u.to, u.amount))

\* createMintNativeCoin without the allow list check
createMintNativeCoinUnchecked(st, caller, input, suppliedGas, readOnly) ==
    LET g == deductGas(suppliedGas, MintGasCost)
        u == UnpackMintInput(input)
    IN  IF g.err # ErrNil THEN Result(TRUE, <<>>, 0, g.err, st)
        ELSE IF readOnly THEN Result(TRUE, <<>>, g.remainingGas, ErrWriteProtection, st)
        ELSE IF u.err # ErrNil THEN Result(TRUE, <<>>, g.remainingGas, u.err, st)
        ELSE Result(FALSE, <<>>, g.remainingGas, ErrNil, MintCredit(st, u.to, u.amount))

createMintNativeCoin(st, caller, input, suppliedGas, readOnly) ==
    LET g == deductGas(suppliedGas, MintGasCost)
        u == UnpackMintInput(input)
        callerStatus == getAllowListStatus(st, ContractNativeMinterAddress, caller)
    IN  IF g.err # ErrNil THEN Result(TRUE, <<>>, 0, g.err, st)
        ELSE IF readOnly THEN Result(TRUE, <<>>, g.remainingGas, ErrWriteProtection, st)
        ELSE IF u.err # ErrNil THEN Result(TRUE, <<>>, g.remainingGas, u.err, st)
        ELSE IF ~IsEnabled(callerStatus)
             THEN Result(TRUE, <<>>, g.remainingGas, ErrPermissionDenied, st)
        ELSE Result(FALSE, <<>>, g.remainingGas, ErrNil, MintCredit(st, u.to, u.amount))

(***************************************************************************)
(* Fee config manager                                                      *)
(***************************************************************************)
feeConfigInputLen == HashLength * (maxKey - minKey + 1)

\* a nil *big.Int, distinct from every magnitude
NilBigInt == <<-1>>

FeeConfigFields ==
    <<"GasLimit", "TargetBlockRate", "MinBaseFee", "TargetGas",
      "BaseFeeChangeDenominator", "MinBlockGasCost", "MaxBlockGasCost",
      "BlockGasCostStep">>

\* FeeConfig{}: every field nil
EmptyFeeConfig == [f \in {FeeConfigFields[i] : i \in 1..8} |-> NilBigInt]

\* PackSetFeeConfigInput without the 4-byte selector
PackSetFeeConfigBody(feeConfig) ==
    BigFillBytes(feeConfig.GasLimit, 32)
    \o BigFillBytes(feeConfig.TargetBlockRate, 32)
    \o BigFillBytes(feeConfig.MinBaseFee, 32)
    \o BigFillBytes(feeConfig.TargetGas, 32)
    \o BigFillBytes(feeConfig.BaseFeeChangeDenominator, 32)
    \o BigFillBytes(feeConfig.MinBlockGasCost, 32)
    \o BigFillBytes(feeConfig.MaxBlockGasCost, 32)
    \o BigFillBytes(feeConfig.BlockGasCostStep, 32)

UnpackFeeConfigInput(input) ==
    IF Len(input) # feeConfigInputLen
    THEN [feeConfig |-> EmptyFeeConfig, err |-> ErrInvalidInputLength]
    ELSE [feeConfig |->
            [GasLimit                 |-> BigSetBytes(returnPackedElement(input, 0)),
             TargetBlockRate          |-> BigSetBytes(returnPackedElement(input, 1)),
             MinBaseFee               |-> BigSetBytes(returnPackedElement(input, 2)),
             TargetGas                |-> BigSetBytes(returnPackedElement(input, 3)),
             BaseFeeChangeDenominator |-> BigSetBytes(returnPackedElement(input, 4)),
             MinBlockGasCost          |-> BigSetBytes(returnPackedElement(input, 5)),
             MaxBlockGasCost          |-> BigSetBytes(returnPackedElement(input, 6)),
             BlockGasCostStep         |-> BigSetBytes(returnPackedElement(input, 7))],
          err |-> ErrNil]

ErrUnknownFieldKey == "UnknownFieldKey"

\* getFeeConfigField without the case of the last key
getFeeConfigFieldNoStep(i) ==
    CASE i = gasLimitKey                 -> "GasLimit"
      [] i = targetBlockRateKey          -> "TargetBlockRate"
      [] i = minBaseFeeKey               -> "MinBaseFee"
      [] i = targetGasKey                -> "TargetGas"
      [] i = baseFeeChangeDenominatorKey -> "BaseFeeChangeDenominator"
      [] i = minBlockGasCostKey          -> "MinBlockGasCost"
      [] i = maxBlockGasCostKey          -> "MaxBlockGasCost"
      [] OTHER                           -> "default"

\* the switch of GetFeeConfig: the field that key i is read into
getFeeConfigField(i) ==
    CASE i = gasLimitKey                 -> "GasLimit"
      [] i = targetBlockRateKey          -> "TargetBlockRate"
      [] i = minBaseFeeKey               -> "MinBaseFee"
      [] i = targetGasKey                -> "TargetGas"
      [] i = baseFeeChangeDenominatorKey -> "BaseFeeChangeDenominator"
      [] i = minBlockGasCostKey          -> "MinBlockGasCost"
      [] i = maxBlockGasCostKey          -> "MaxBlockGasCost"
      [] i = blockGasCostStepKey         -> "BlockGasCostStep"
      [] OTHER                           -> "default"

\* the loop of GetFeeConfig from key i on
RECURSIVE GetFeeConfigFrom(_, _, _)
GetFeeConfigFrom(st, i, feeConfig) ==
    IF i > maxKey THEN [feeConfig |-> feeConfig, err |-> ErrNil]
    ELSE LET val == GetState(st, FeeConfigManagerAddress, HashLiteral(i))
             f   == getFeeConfigField(i)
         IN  IF f = "default"
             THEN [feeConfig |-> EmptyFeeConfig, err |-> ErrUnknownFieldKey]
             ELSE GetFeeConfigFrom(st, i + 1, [feeConfig EXCEPT ![f] = HashBig(val)])

GetFeeConfig(st) ==
    IF ~Exist(st, FeeConfigManagerAddress)
    THEN [feeConfig |-> EmptyFeeConfig, err |-> ErrNil]
    ELSE GetFeeConfigFrom(st, minKey, EmptyFeeConfig)

\* setFeeConfigField with the two block gas cost bounds exchanged
setFeeConfigFieldSwapped(i) ==
    CASE i = gasLimitKey                 -> "GasLimit"
      [] i = targetBlockRateKey          -> "TargetBlockRate"
      [] i = minBaseFeeKey               -> "MinBaseFee"
      [] i = targetGasKey                -> "TargetGas"
      [] i = baseFeeChangeDenominatorKey -> "BaseFeeChangeDenominator"
      [] i = minBlockGasCostKey          -> "MaxBlockGasCost"
      [] i = maxBlockGasCostKey          -> "MinBlockGasCost"
      [] i = blockGasCostStepKey         -> "BlockGasCostStep"
      [] OTHER                           -> "default"

\* the switch of setFeeConfig: the field that is written to key i
setFeeConfigField(i) ==
    CASE i = gasLimitKey                 -> "GasLimit"
      [] i = targetBlockRateKey          -> "TargetBlockRate"
      [] i = minBaseFeeKey               -> "MinBaseFee"
      [] i = targetGasKey                -> "TargetGas"
      [] i = baseFeeChangeDenominatorKey -> "BaseFeeChangeDenominator"
      [] i = minBlockGasCostKey          -> "MinBlockGasCost"
      [] i = maxBlockGasCostKey          -> "MaxBlockGasCost"
      [] i = blockGasCostStepKey         -> "BlockGasCostStep"
      [] OTHER                           -> "default"

\* the loop of setFeeConfig, leaving before the last key
RECURSIVE setFeeConfigFromShort(_, _, _)
setFeeConfigFromShort(st, feeConfig, i) ==
    IF i >= maxKey THEN [st |-> st, err |-> ErrNil]
    ELSE LET f == setFeeConfigField(i)
         IN  IF f = "default"
             THEN [st |-> st, err |-> ErrUnknownFieldKey]
             ELSE setFeeConfigFromShort(
                      SetState(st, FeeConfigManagerAddress, HashLiteral(i),
                               BigToHash(feeConfig[f])),
                      feeConfig, i + 1)

\* the loop of setFeeConfig, going one key beyond the last
RECURSIVE setFeeConfigFromLong(_, _, _)
setFeeConfigFromLong(st, feeConfig, i) ==
    IF i > maxKey + 1 THEN [st |-> st, err |-> ErrNil]
    ELSE LET f == setFeeConfigField(i)
         IN  IF f = "default"
             THEN [st |-> st, err |-> ErrUnknownFieldKey]
             ELSE setFeeConfigFromLong(
                      SetState(st, FeeConfigManagerAddress, HashLiteral(i),
                               BigToHash(feeConfig[f])),
                      feeConfig, i + 1)

\* the loop of setFeeConfig from key i on
RECURSIVE setFeeConfigFrom(_, _, _)
setFeeConfigFrom(st, feeConfig, i) ==
    IF i > maxKey THEN [st |-> st, err |-> ErrNil]
    ELSE LET f == setFeeConfigField(i)
         IN  IF f = "default"
             THEN [st |-> st, err |-> ErrUnknownFieldKey]
             ELSE setFeeConfigFrom(
                      SetState(st, FeeConfigManagerAddress, HashLiteral(i),
                               BigToHash(feeConfig[f])),
                      feeConfig, i + 1)

setFeeConfig(st, feeConfig) == setFeeConfigFrom(st, feeConfig, minKey)

\* createSetFeeConfig without the read-only check
createSetFeeConfigNoWriteProtection(st, caller, input, suppliedGas, readOnly) ==
    LET g == deductGas(suppliedGas, SetFeeConfigGasCost)
        u == UnpackFeeConfigInput(input)
        callerStatus == getAllowListStatus(st, FeeConfigManagerAddress, caller)
    IN  IF g.err # ErrNil THEN Result(TRUE, <<>>, 0, g.err, st)
        ELSE IF u.err # ErrNil THEN Result(TRUE, <<>>, g.remainingGas, u.err, st)
        ELSE IF ~IsEnabled(callerStatus)
             THEN Result(TRUE, <<>>, g.remainingGas, ErrPermissionDenied, st)
        ELSE Result(FALSE, <<>>, g.remainingGas, ErrNil, setFeeConfig(st, u.feeConfig).st)

\* createSetFeeConfig that hands the whole budget back to a refused caller
createSetFeeConfigRefund(st, caller, input, suppliedGas, readOnly) ==
    LET g == deductGas(suppliedGas, SetFeeConfigGasCost)
        u == UnpackFeeConfigInput(input)
        callerStatus == getAllowListStatus(st, FeeConfigManagerAddress, caller)
    IN  IF g.err # ErrNil THEN Result(TRUE, <<>>, 0, g.err, st)
        ELSE IF readOnly THEN Result(TRUE, <<>>, g.remainingGas, ErrWriteProtection, st)
        ELSE IF u.err # ErrNil THEN Result(TRUE, <<>>, g.remainingGas, u.err, st)
        ELSE IF ~IsEnabled(callerStatus)
             THEN Result(TRUE, <<>>, suppliedGas, ErrPermissionDenied, st)
        ELSE Result(FALSE, <<>>, g.remainingGas, ErrNil, setFeeConfig(st, u.feeConfig).st)

\* createSetFeeConfig that writes before it checks the caller
createSetFeeConfigWriteFirst(st, caller, input, suppliedGas, readOnly) ==
    LET g == deductGas(suppliedGas, SetFeeConfigGasCost)
        u == UnpackFeeConfigInput(input)
        callerStatus == getAllowListStatus(st, FeeConfigManagerAddress, caller)
        written == setFeeConfig(st, u.feeConfig).st
    IN  IF g.err # ErrNil THEN Result(TRUE, <<>>, 0, g.err, st)
        ELSE IF readOnly THEN Result(TRUE, <<>>, g.remainingGas, ErrWriteProtection, st)
        ELSE IF u.err # ErrNil THEN Result(TRUE, <<>>, g.remainingGas, u.err, st)
        ELSE IF ~IsEnabled(callerStatus)
             THEN Result(TRUE, <<>>, g.remainingGas, ErrPermissionDenied, written)
        ELSE Result(FALSE, <<>>, g.remainingGas, ErrNil, written)

\* the error of setFeeConfig is dropped by the handler
createSetFeeConfig(st, caller, input, suppliedGas, readOnly) ==
    LET g == deductGas(suppliedGas, SetFeeConfigGasCost)
        u == UnpackFeeConfigInput(input)
        callerStatus == getAllowListStatus(st, FeeConfigManagerAddress, caller)
    IN  IF g.err # ErrNil THEN Result(TRUE, <<>>, 0, g.err, st)
        ELSE IF readOnly THEN Result(TRUE, <<>>, g.remainingGas, ErrWriteProtection, st)
        ELSE IF u.err # ErrNil THEN Result(TRUE, <<>>, g.remainingGas, u.err, st)
        ELSE IF ~IsEnabled(callerStatus)
             THEN Result(TRUE, <<>>, g.remainingGas, ErrPermissionDenied, st)
        ELSE Result(FALSE, <<>>, g.remainingGas, ErrNil, setFeeConfig(st, u.feeConfig).st)

(***************************************************************************)
(* Allow list handlers shared by both precompiles                          *)
(***************************************************************************)
allowListInputLen == HashLength

\* setAdmin / setEnabled / setNone of the contract at precompileAddr
createAllowListRoleSetter(precompileAddr, role, st, callerAddr, input, suppliedGas, readOnly) ==
    LET g == deductGas(suppliedGas, ModifyAllowListGasCost)
        callerStatus == getAllowListStatus(st, precompileAddr, callerAddr)
    IN  IF g.err # ErrNil THEN Result(TRUE, <<>>, 0, g.err, st)
        ELSE IF readOnly THEN Result(TRUE, <<>>, g.remainingGas, ErrWriteProtection, st)
        ELSE IF Len(input) # allowListInputLen
             THEN Result(TRUE, <<>>, g.remainingGas, ErrInvalidInputLength, st)
        ELSE IF ~IsAdmin(callerStatus)
             THEN Result(TRUE, <<>>, g.remainingGas, ErrPermissionDenied, st)
        ELSE Result(FALSE, <<>>, g.remainingGas, ErrNil,
                    setAllowListRole(st, precompileAddr, BytesToAddress(input), role))

\* readAllowList of the contract at precompileAddr
createReadAllowList(precompileAddr, st, input, suppliedGas) ==
    LET g == deductGas(suppliedGas, ReadAllowListGasCost)
    IN  IF g.err # ErrNil THEN Result(TRUE, <<>>, 0, g.err, st)
        ELSE IF Len(input) # allowListInputLen
             THEN Result(TRUE, <<>>, g.remainingGas, ErrInvalidInputLength, st)
        ELSE Result(FALSE, getAllowListStatus(st, precompileAddr, BytesToAddress(input)),
                    g.remainingGas, ErrNil, st)

(***************************************************************************)
(* xChainECRecover stub: both handlers return their input                  *)
(***************************************************************************)
createXChainECRecover(st, input, suppliedGas, readOnly) ==
    LET g == deductGas(suppliedGas, MintGasCost)
    IN  IF g.err # ErrNil THEN Result(TRUE, <<>>, 0, g.err, st)
        ELSE IF readOnly THEN Result(TRUE, <<>>, g.remainingGas, ErrWriteProtection, st)
        ELSE Result(FALSE, input, g.remainingGas, ErrNil, st)

getXChainECRecover(st, input, suppliedGas) ==
    LET g == deductGas(suppliedGas, ReadAllowListGasCost)
    IN  IF g.err # ErrNil THEN Result(TRUE, <<>>, 0, g.err, st)
        ELSE Result(FALSE, input, g.remainingGas, ErrNil, st)

(***************************************************************************)
(* Inputs of the calls                                                     *)
(***************************************************************************)
\* 2^256 - 1
MaxUint256 == [i \in 1..HashLength |-> 255]

Big500 == <<1, 244>>

CallInput(caller, input, suppliedGas, readOnly) ==
    [caller |-> caller, input |-> input, suppliedGas |-> suppliedGas,
     readOnly |-> readOnly]

\* one budget below the cost, one above it
GasBudgets(cost) == {cost - 1, cost + GasSlack}

\* every combination of caller, body, budget and read-only flag
CallInputs(callers, bodies, cost) ==
    {CallInput(c, i, g, ro) :
        c \in callers, i \in bodies, g \in GasBudgets(cost), ro \in BOOLEAN}

\* the calls of one caller that fail before the permission check, and the
\* call whose budget equals the cost
EarlyCalls(caller, body, badBody, cost) ==
    {CallInput(caller, body, cost - 1, FALSE),
     CallInput(caller, body, cost + GasSlack, TRUE),
     CallInput(caller, badBody, cost + GasSlack, FALSE),
     CallInput(caller, body, cost, FALSE)}

\* ordinary calls: enough gas, not read-only
PlainCalls(callers, bodies, cost) ==
    {CallInput(c, i, cost + GasSlack, FALSE) : c \in callers, i \in bodies}

MintCallers == {AddrA, AddrC, AddrD}

\* a 64-byte body whose address word has non-zero bytes above the address
DirtyMintBody == <<255>> \o Zeros(11) \o AddrE \o BigFillBytes(<<1>>, 32)

MintBodies ==
    {PackMintBody(AddrD, Big500), PackMintBody(AddrE, <<1>>),
     PackMintBody(AddrD, MaxUint256),
     PackMintBody(FeeConfigManagerAddress, BigZero), DirtyMintBody}

BadMintBodies == {Zeros(mintInputLen - 1), Zeros(mintInputLen + 1)}

MintCalls ==
    CallInputs(MintCallers,
               {PackMintBody(AddrE, <<1>>), Zeros(mintInputLen - 1)}, MintGasCost)
    \cup PlainCalls({AddrC}, MintBodies, MintGasCost)
    \cup PlainCalls({AddrD}, BadMintBodies, MintGasCost)
    \cup {CallInput(AddrA, PackMintBody(AddrD, Big500), MintGasCost, FALSE)}

\* setFeeConfig(21000000,2,25000000000,15000000,36,0,10000000,100000)
ScenarioAConfig ==
    [GasLimit                 |-> <<1, 64, 111, 64>>,
     TargetBlockRate          |-> <<2>>,
     MinBaseFee               |-> <<5, 210, 29, 186, 0>>,
     TargetGas                |-> <<228, 225, 192>>,
     BaseFeeChangeDenominator |-> <<36>>,
     MinBlockGasCost          |-> BigZero,
     MaxBlockGasCost          |-> <<152, 150, 128>>,
     BlockGasCostStep         |-> <<1, 134, 160>>]

ZeroConfig == [f \in DOMAIN EmptyFeeConfig |-> BigZero]

MaxConfig == [f \in DOMAIN EmptyFeeConfig |-> MaxUint256]

\* a configuration whose gas limit is 1
UnitGasLimitConfig == [ScenarioAConfig EXCEPT !.GasLimit = <<1>>]

FeeConfigs == {ScenarioAConfig, ZeroConfig, MaxConfig, UnitGasLimitConfig}

FeeCallers == {ZeroAddr, AddrA, AddrB}

FeeBodies == {PackSetFeeConfigBody(c) : c \in FeeConfigs}

BadFeeBodies == {Zeros(feeConfigInputLen - 1), Zeros(feeConfigInputLen + 1)}

FeeCalls ==
    CallInputs(FeeCallers,
               {PackSetFeeConfigBody(ScenarioAConfig), Zeros(feeConfigInputLen - 1)},
               SetFeeConfigGasCost)
    \cup PlainCalls({AddrA, AddrB}, FeeBodies, SetFeeConfigGasCost)
    \cup PlainCalls({AddrB}, BadFeeBodies, SetFeeConfigGasCost)
    \cup {CallInput(AddrA, PackSetFeeConfigBody(ZeroConfig), SetFeeConfigGasCost, FALSE)}

RoleCallers(c) ==
    IF c = ContractNativeMinterAddress THEN {AddrA, AddrC} ELSE {AddrA, AddrB}

RoleTargets(c) ==
    IF c = ContractNativeMinterAddress THEN {AddrC} ELSE {ZeroAddr, AddrB}

\* ordinary role-setter calls, and for setAdmin the calls that fail early
RoleCalls(c, role) ==
    PlainCalls(RoleCallers(c), {AddressHash(a) : a \in RoleTargets(c)},
               ModifyAllowListGasCost)
    \cup IF role = BigToHash(<<2>>)
         THEN EarlyCalls(AddrA, AddressHash(AddrC), Zeros(allowListInputLen - 1),
                         ModifyAllowListGasCost)
         ELSE {}

ReadCalls(c) ==
    PlainCalls({AddrB}, {AddressHash(a) : a \in RoleTargets(c)}, ReadAllowListGasCost)
    \cup {CallInput(AddrB, Zeros(allowListInputLen + 1), ReadAllowListGasCost, TRUE),
          CallInput(AddrB, AddressHash(AddrA), ReadAllowListGasCost - 1, FALSE)}

Roles == {AllowListNoRole, AllowListEnabled, AllowListAdmin}

RoleSetterName(role) ==
    CASE role = AllowListAdmin   -> "setAdmin"
      [] role = AllowListEnabled -> "setEnabled"
      [] role = AllowListNoRole  -> "setNone"

\* the echo handlers take any bytes
EchoCalls(cost) == EarlyCalls(AddrA, <<7, 8, 9>>, <<>>, cost)

(***************************************************************************)
(* The state machine: one action per handler call                          *)
(***************************************************************************)
\* the record of a call: its inputs, the state it ran in (pre) and its results
Call(handler, addr, caller, input, suppliedGas, readOnly, role, pre, r) ==
    [handler |-> handler, addr |-> addr, caller |-> caller, input |-> input,
     suppliedGas |-> suppliedGas, readOnly |-> readOnly, role |-> role,
     pre |-> pre,
     retNil |-> r.retNil, ret |-> r.ret, remainingGas |-> r.remainingGas,
     err |-> r.err, feeConfig |-> EmptyFeeConfig]

NoCall ==
    Call("none", <<>>, ZeroAddr, <<>>, 0, FALSE, ZeroHash, EmptyStateDB,
         Result(TRUE, <<>>, 0, ErrNil, EmptyStateDB))

RolePairs == Precompiles \X Users

\* the role last written through setAllowListRole, per (contract, address)
NeverSet == [p \in RolePairs |-> [set |-> FALSE, role |-> ZeroHash]]

Seeded(ls, precompileAddr, admins) ==
    [p \in RolePairs |->
        IF p[1] = precompileAddr /\ p[2] \in admins
        THEN [set |-> TRUE, role |-> AllowListAdmin] ELSE ls[p]]

\* the state after activation: Configure has seeded the initial admins
Init ==
    \E feeAdmins \in {{}, {AddrA}} :
        /\ stateDB = Configure(Configure(EmptyStateDB, ContractNativeMinterAddress, {AddrA}),
                               FeeConfigManagerAddress, feeAdmins)
        /\ lastSet = Seeded(Seeded(NeverSet, ContractNativeMinterAddress, {AddrA}),
                            FeeConfigManagerAddress, feeAdmins)
        /\ last = NoCall
        /\ ncalls = 0

Mint ==
    \E in \in MintCalls :
        LET caller == in.caller
            input == in.input
            suppliedGas == in.suppliedGas
            readOnly == in.readOnly
            r == createMintNativeCoin(stateDB, caller, input, suppliedGas, readOnly)
        IN  /\ ncalls < MaxCalls
            /\ stateDB' = r.st
            /\ last' = Call("mint", ContractNativeMinterAddress, caller, input,
                            suppliedGas, readOnly, ZeroHash, stateDB, r)
            /\ ncalls' = ncalls + 1
            /\ UNCHANGED lastSet

SetFeeConfig ==
    \E in \in FeeCalls :
        LET caller == in.caller
            input == in.input
            suppliedGas == in.suppliedGas
            readOnly == in.readOnly
            r == createSetFeeConfig(stateDB, caller, input, suppliedGas, readOnly)
        IN  /\ ncalls < MaxCalls
            /\ stateDB' = r.st
            /\ last' = Call("setFeeConfig", FeeConfigManagerAddress, caller, input,
                            suppliedGas, readOnly, ZeroHash, stateDB, r)
            /\ ncalls' = ncalls + 1
            /\ UNCHANGED lastSet

SetRole ==
    \E c \in Precompiles, role \in Roles :
      \E in \in RoleCalls(c, role) :
        LET caller == in.caller
            input == in.input
            suppliedGas == in.suppliedGas
            readOnly == in.readOnly
            r == createAllowListRoleSetter(c, role, stateDB, caller, input,
                                           suppliedGas, readOnly)
        IN  /\ ncalls < MaxCalls
            /\ stateDB' = r.st
            /\ last' = Call(RoleSetterName(role), c, caller, input,
                            suppliedGas, readOnly, role, stateDB, r)
            /\ lastSet' = IF r.err = ErrNil
                          THEN [lastSet EXCEPT ![<<c, BytesToAddress(input)>>] =
                                    [set |-> TRUE, role |-> role]]
                          ELSE lastSet
            /\ ncalls' = ncalls + 1

ReadAllowList ==
    \E c \in Precompiles :
      \E in \in ReadCalls(c) :
        LET caller == in.caller
            input == in.input
            suppliedGas == in.suppliedGas
            readOnly == in.readOnly
            r == createReadAllowList(c, stateDB, input, suppliedGas)
        IN  /\ ncalls < MaxCalls
            /\ stateDB' = r.st
            /\ last' = Call("readAllowList", c, caller, input,
                            suppliedGas, readOnly, ZeroHash, stateDB, r)
            /\ ncalls' = ncalls + 1
            /\ UNCHANGED lastSet

XChainECRecover ==
    \E in \in EchoCalls(MintGasCost) :
        LET caller == in.caller
            input == in.input
            suppliedGas == in.suppliedGas
            readOnly == in.readOnly
            r == createXChainECRecover(stateDB, input, suppliedGas, readOnly)
        IN  /\ ncalls < MaxCalls
            /\ stateDB' = r.st
            /\ last' = Call("xChainECRecover", <<>>, caller, input,
                            suppliedGas, readOnly, ZeroHash, stateDB, r)
            /\ ncalls' = ncalls + 1
            /\ UNCHANGED lastSet

GetXChainECRecover ==
    \E in \in EchoCalls(ReadAllowListGasCost) :
        LET caller == in.caller
            input == in.input
            suppliedGas == in.suppliedGas
            readOnly == in.readOnly
            r == getXChainECRecover(stateDB, input, suppliedGas)
        IN  /\ ncalls < MaxCalls
            /\ stateDB' = r.st
            /\ last' = Call("getXChainECRecover", <<>>, caller, input,
                            suppliedGas, readOnly, ZeroHash, stateDB, r)
            /\ ncalls' = ncalls + 1
            /\ UNCHANGED lastSet

\* the host reads the fee configuration between two calls
ReadFeeConfig ==
    LET c == GetFeeConfig(stateDB)
    IN  /\ ncalls < MaxCalls
        /\ last' = [Call("getFeeConfig", FeeConfigManagerAddress, ZeroAddr, <<>>, 0,
                         FALSE, ZeroHash, stateDB,
                         Result(TRUE, <<>>, 0, c.err, stateDB))
                    EXCEPT !.feeConfig = c.feeConfig]
        /\ ncalls' = ncalls + 1
        /\ UNCHANGED <<stateDB, lastSet>>

Next ==
    \/ Mint
    \/ SetFeeConfig
    \/ SetRole
    \/ ReadAllowList
    \/ XChainECRecover
    \/ GetXChainECRecover
    \/ ReadFeeConfig

Spec == Init /\ [][Next]_vars

(***************************************************************************)
(* Reading a recorded call                                                 *)
(***************************************************************************)
\* the k-th 32-byte word of a body, counted from 1
BodyWord(body, k) == [i \in 1..32 |-> body[32 * (k - 1) + i]]

\* the unsigned integer a 32-byte word holds
WordValue(w) == StripZeros(w)

\* the address a 32-byte word holds in its low 20 bytes
WordAddress(w) == [i \in 1..20 |-> w[12 + i]]

\* the fee configuration a 256-byte body holds, fields in the fixed order
BodyFeeConfig(body) ==
    [f \in DOMAIN EmptyFeeConfig |->
        WordValue(BodyWord(body, CHOOSE k \in 1..8 : FeeConfigFields[k] = f))]

\* x <= y for two magnitudes without leading zeros
RECURSIVE LexLeq(_, _)
LexLeq(x, y) ==
    IF x = <<>> THEN TRUE
    ELSE IF Head(x) # Head(y) THEN Head(x) < Head(y)
    ELSE LexLeq(Tail(x), Tail(y))

BigLeq(x, y) == Len(x) < Len(y) \/ (Len(x) = Len(y) /\ LexLeq(x, y))

\* the number a magnitude of at most three bytes stands for
RECURSIVE SmallNat(_)
SmallNat(x) == IF x = <<>> THEN 0 ELSE SmallNat(SubSeq(x, 1, Len(x) - 1)) * 256 + x[Len(x)]

\* z = x + y, stated without the adder: by ordinary arithmetic where the
\* numbers are small, and by order and the neutral element above that
IsSum(x, y, z) ==
    /\ BigLeq(x, z)
    /\ BigLeq(y, z)
    /\ (x = BigZero => z = y)
    /\ (y = BigZero => z = x)
    /\ (x # BigZero /\ y # BigZero => z # x /\ z # y)
    /\ (Len(z) <= 3 => SmallNat(z) = SmallNat(x) + SmallNat(y))
    /\ (x = MaxUint256 /\ y = MaxUint256 =>
            z = <<1>> \o [i \in 1..31 |-> 255] \o <<254>>)
    /\ (x = MaxUint256 /\ y = Big500 => z = <<1>> \o Zeros(30) \o <<1, 243>>)

\* the role the caller of the last call had when the call began
CallerRole == getAllowListStatus(last.pre, last.addr, last.caller)

GasCostOf(handler) ==
    CASE handler \in {"mint", "xChainECRecover"}               -> MintGasCost
      [] handler = "setFeeConfig"                              -> SetFeeConfigGasCost
      [] handler \in {"setAdmin", "setEnabled", "setNone"}     -> ModifyAllowListGasCost
      [] handler \in {"readAllowList", "getXChainECRecover"}   -> ReadAllowListGasCost

\* a mint call that passes the gas, read-only and length checks
MintDecoded ==
    /\ last.handler = "mint"
    /\ last.suppliedGas >= MintGasCost
    /\ ~last.readOnly
    /\ Len(last.input) = 64

\* a setFeeConfig call that passes the gas, read-only and length checks
FeeConfigDecoded ==
    /\ last.handler = "setFeeConfig"
    /\ last.suppliedGas >= SetFeeConfigGasCost
    /\ ~last.readOnly
    /\ Len(last.input) = 256

MintTo == WordAddress(BodyWord(last.input, 1))

MintAmount == WordValue(BodyWord(last.input, 2))

(***************************************************************************)
(* Claims                                                                  *)
(***************************************************************************)

\* C1: a mint call with enough gas, readOnly false, a 64-byte body and a
\* caller that is Enabled or Admin succeeds with empty output; the receiver
\* exists afterwards, its balance is its previous balance (0 when it was
\* absent) plus the amount, with no wrap-around, and nothing else changes.
C1_MintCredits ==
    MintDecoded /\ IsEnabled(CallerRole) =>
        /\ last.err = ErrNil
        /\ ~last.retNil
        /\ last.ret = <<>>
        /\ Exist(stateDB, MintTo)
        /\ IsSum(GetBalance(last.pre, MintTo), MintAmount, GetBalance(stateDB, MintTo))
        /\ \A a \in AllAddrs \ {MintTo} :
              /\ GetBalance(stateDB, a) = GetBalance(last.pre, a)
              /\ Exist(stateDB, a) = Exist(last.pre, a)
        /\ stateDB.storage = last.pre.storage

\* C1 witness: a receiver that holds 2^256 - 1 already is credited again
C1_Witness ==
    /\ MintDecoded
    /\ IsEnabled(CallerRole)
    /\ last.err = ErrNil
    /\ GetBalance(last.pre, MintTo) = MaxUint256
    /\ MintAmount # BigZero
    /\ Len(GetBalance(stateDB, MintTo)) = 33

\* C2: a mint call by a caller whose role is None (enough gas, readOnly
\* false, 64-byte body) fails with PermissionDenied and leaves every account
\* and balance as it was; a mint of 500 by an enabled caller to an absent
\* account leaves that account with balance 500.
C2_MintDenied ==
    /\ MintDecoded /\ CallerRole = AllowListNoRole =>
          /\ last.err = ErrPermissionDenied
          /\ stateDB = last.pre
    /\ MintDecoded /\ IsEnabled(CallerRole) /\ MintAmount = Big500
          /\ ~Exist(last.pre, MintTo) =>
          GetBalance(stateDB, MintTo) = Big500

\* C2 witness, Scenario B: A enabled C, C minted 500 to the absent D, and D,
\* never enabled, has just called mint(E, 1)
C2_Witness ==
    /\ MintDecoded
    /\ last.caller = AddrD
    /\ MintTo = AddrE
    /\ MintAmount = <<1>>
    /\ CallerRole = AllowListNoRole
    /\ lastSet[<<ContractNativeMinterAddress, AddrC>>] = [set |-> TRUE, role |-> AllowListEnabled]
    /\ GetBalance(stateDB, AddrD) = Big500
    /\ last.err = ErrPermissionDenied
    /\ GetBalance(stateDB, AddrE) = BigZero
    /\ ~Exist(stateDB, AddrE)

\* C3: after a setFeeConfig call succeeds, GetFeeConfig returns, without
\* error, exactly the 8 fields of the call, in the fixed order.
C3_FeeConfigRoundTrip ==
    last.handler = "setFeeConfig" /\ last.err = ErrNil =>
        GetFeeConfig(stateDB) = [feeConfig |-> BodyFeeConfig(last.input), err |-> ErrNil]

\* C3 witness: the all-maximal configuration was stored over another one
C3_Witness ==
    /\ last.handler = "setFeeConfig"
    /\ last.err = ErrNil
    /\ BodyFeeConfig(last.input) = MaxConfig
    /\ GetFeeConfig(last.pre).feeConfig = ScenarioAConfig
    /\ GetFeeConfig(stateDB).feeConfig = MaxConfig

\* C4: a setFeeConfig call by a caller whose role is None fails and leaves
\* the state, and so all 8 stored fields, unchanged; with enough gas,
\* readOnly false and a 256-byte body the error is PermissionDenied.
C4_FeeConfigDenied ==
    last.handler = "setFeeConfig" /\ CallerRole = AllowListNoRole =>
        /\ last.err # ErrNil
        /\ stateDB = last.pre
        /\ GetFeeConfig(stateDB) = GetFeeConfig(last.pre)
        /\ (FeeConfigDecoded => last.err = ErrPermissionDenied)

\* C4 witness, Scenario A: A stored the configuration, then B, whose role
\* is None, called setFeeConfig with other values
C4_Witness ==
    /\ FeeConfigDecoded
    /\ last.caller = AddrB
    /\ CallerRole = AllowListNoRole
    /\ BodyFeeConfig(last.input) = MaxConfig
    /\ last.err = ErrPermissionDenied
    /\ GetFeeConfig(stateDB).feeConfig = ScenarioAConfig

WriteHandlers == {"mint", "setFeeConfig"}

\* the body length a write handler decodes
BodyLenOf(handler) == IF handler = "mint" THEN 64 ELSE 256

\* C5 as stated: a write handler called with readOnly true fails with
\* WriteProtection and mutates no state, whatever the other inputs are.
C5_AsStated ==
    last.handler \in WriteHandlers /\ last.readOnly =>
        /\ last.err = ErrWriteProtection
        /\ stateDB = last.pre

\* C5 amended: a write handler called with readOnly true and a gas budget of
\* at least its cost fails with WriteProtection, for every caller role and
\* body; with any budget it fails and mutates no state.
C5_WriteProtection ==
    last.handler \in WriteHandlers /\ last.readOnly =>
        /\ last.err # ErrNil
        /\ stateDB = last.pre
        /\ (last.suppliedGas >= GasCostOf(last.handler) =>
                last.err = ErrWriteProtection)

\* C5 witness: an Admin's well-formed setFeeConfig in a read-only context
C5_Witness ==
    /\ last.handler = "setFeeConfig"
    /\ last.readOnly
    /\ last.suppliedGas >= SetFeeConfigGasCost
    /\ Len(last.input) = 256
    /\ CallerRole = AllowListAdmin
    /\ last.err = ErrWriteProtection
    /\ stateDB = last.pre

Handlers ==
    {"mint", "setFeeConfig", "setAdmin", "setEnabled", "setNone",
     "readAllowList", "xChainECRecover", "getXChainECRecover"}

\* C6: a handler called with a budget below its cost fails with OutOfGas,
\* returns zero remaining gas and leaves the state as it was, whatever the
\* caller's role, the read-only flag and the body are.
C6_OutOfGas ==
    last.handler \in Handlers /\ last.suppliedGas < GasCostOf(last.handler) =>
        /\ last.err = ErrOutOfGas
        /\ last.remainingGas = 0
        /\ last.retNil
        /\ stateDB = last.pre

\* C6 witness: an enabled caller's well-formed mint, one unit of gas short
C6_Witness ==
    /\ last.handler = "mint"
    /\ last.suppliedGas = MintGasCost - 1
    /\ ~last.readOnly
    /\ Len(last.input) = 64
    /\ IsEnabled(CallerRole)
    /\ last.err = ErrOutOfGas
    /\ last.remainingGas = 0

\* the first check, in the order gas, read-only, length, permission, that
\* the last call fails
FirstFailure ==
    IF last.suppliedGas < GasCostOf(last.handler) THEN ErrOutOfGas
    ELSE IF last.readOnly THEN ErrWriteProtection
    ELSE IF Len(last.input) # BodyLenOf(last.handler) THEN ErrInvalidInputLength
    ELSE IF ~IsEnabled(CallerRole) THEN ErrPermissionDenied
    ELSE ErrNil

\* C7: mint and setFeeConfig report the first failure in the order OutOfGas,
\* WriteProtection, InvalidInputLength, PermissionDenied, and write no state
\* unless all four checks pass.
C7_CheckOrder ==
    last.handler \in WriteHandlers =>
        /\ last.err = FirstFailure
        /\ (FirstFailure # ErrNil => stateDB = last.pre)

\* C7 witness: a caller with role None sends a wrong-length mint body with
\* enough gas and readOnly false
C7_Witness ==
    /\ last.handler = "mint"
    /\ last.suppliedGas >= MintGasCost
    /\ ~last.readOnly
    /\ Len(last.input) # 64
    /\ CallerRole = AllowListNoRole
    /\ last.err = ErrInvalidInputLength

\* C8: for mint and setFeeConfig called with a budget of at least the cost,
\* the remaining gas is the budget minus the cost, on success and on every
\* failure; the remaining gas never exceeds the budget.
C8_GasOnce ==
    last.handler \in WriteHandlers =>
        /\ last.remainingGas <= last.suppliedGas
        /\ (last.suppliedGas >= GasCostOf(last.handler) =>
                /\ last.err \in {ErrNil, ErrWriteProtection, ErrInvalidInputLength,
                                 ErrPermissionDenied}
                /\ last.remainingGas = last.suppliedGas - GasCostOf(last.handler))

\* C8 witness: a refused setFeeConfig keeps what was supplied above the cost
C8_Witness ==
    /\ last.handler = "setFeeConfig"
    /\ last.err = ErrPermissionDenied
    /\ last.suppliedGas = SetFeeConfigGasCost + GasSlack
    /\ last.remainingGas = GasSlack

\* C9: the configuration a reader obtains after a setFeeConfig call is the
\* whole configuration of before the call or the whole configuration of the
\* call, never some fields of each.
C9_NoPartialUpdate ==
    last.handler = "setFeeConfig" =>
        LET old == GetFeeConfig(last.pre).feeConfig
            new == IF Len(last.input) = 256 THEN BodyFeeConfig(last.input) ELSE old
            cur == GetFeeConfig(stateDB).feeConfig
        IN  /\ cur \in {old, new}
            /\ (last.err # ErrNil => cur = old)

\* C9 witness: a call replaced a stored configuration by one that differs
\* from it in all 8 fields
C9_Witness ==
    /\ FeeConfigDecoded
    /\ last.err = ErrNil
    /\ Exist(last.pre, FeeConfigManagerAddress)
    /\ \A f \in DOMAIN EmptyFeeConfig :
          /\ GetFeeConfig(last.pre).feeConfig[f] # BodyFeeConfig(last.input)[f]
          /\ GetFeeConfig(last.pre).feeConfig[f] # BigZero
          /\ GetFeeConfig(stateDB).feeConfig[f] = BodyFeeConfig(last.input)[f]

\* a mint or setFeeConfig call by address a on contract c that passes the
\* gas, read-only and length checks
PrivilegedCallBy(c, a) ==
    /\ last.caller = a
    /\ last.addr = c
    /\ MintDecoded \/ FeeConfigDecoded

\* C10: for every address a, the role of a is None before any setRole on a;
\* right after setRole(a, Enabled) the role of a is enabled; and once the
\* last setRole on a has set None, every privileged call by a fails with
\* PermissionDenied.
C10_RoleLifecycle ==
    \A p \in RolePairs :
        /\ ~lastSet[p].set => getAllowListStatus(stateDB, p[1], p[2]) = AllowListNoRole
        /\ (/\ last.handler = "setEnabled"
            /\ last.err = ErrNil
            /\ last.addr = p[1]
            /\ BytesToAddress(last.input) = p[2])
           => IsEnabled(getAllowListStatus(stateDB, p[1], p[2]))
        /\ (/\ lastSet[p] = [set |-> TRUE, role |-> AllowListNoRole]
            /\ PrivilegedCallBy(p[1], p[2]))
           => last.err = ErrPermissionDenied

\* C11: in every reachable state the stored role of every (contract,
\* address) pair is one of None, Enabled and Admin.
C11_RoleValues ==
    \A p \in RolePairs : getAllowListStatus(stateDB, p[1], p[2]) \in Roles

\* the role of every address on both contracts, as read from a state
RolesOf(st) == [p \in RolePairs |-> getAllowListStatus(st, p[1], p[2])]

\* C12: a call made by an address that does not hold Admin on the contract
\* it calls changes the role of no address on any contract.
C12_RoleChangeNeedsAdmin ==
    last.handler \in Handlers /\ last.addr \in Precompiles
        /\ ~IsAdmin(CallerRole) =>
        RolesOf(stateDB) = RolesOf(last.pre)

(***************************************************************************)
(* The codec applied to drawn arguments and drawn byte strings             *)
(***************************************************************************)
selectorLen == 4

\* CalculateFunctionSelector("mintNativeCoin(address,uint256)"): the first
\* four bytes of the Keccak-256 hash of the signature, 0x4f5aaaba
mintSignature == <<79, 90, 170, 186>>

ErrEncodingLengthMismatch == "encoding length mismatch"

RECURSIVE Concat(_)
Concat(parts) == IF parts = <<>> THEN <<>> ELSE Head(parts) \o Concat(Tail(parts))

\* inputPackOrdered(inputs, totalLen): the parts in order, or an error when
\* their total length is not totalLen
inputPackOrdered(inputs, totalLen) ==
    LET packed == Concat(inputs)
    IN  IF Len(packed) # totalLen
        THEN [ret |-> <<>>, err |-> ErrEncodingLengthMismatch]
        ELSE [ret |-> packed, err |-> ErrNil]

\* PackMintInput with the amount in its shortest form, not filled to 32 bytes
PackMintInputUnpadded(address, amount) ==
    LET fullLen == selectorLen + mintInputLen
    IN  inputPackOrdered(<<mintSignature, AddressHash(address), BigBytes(amount)>>,
                         fullLen)

PackMintInput(address, amount) ==
    LET fullLen == selectorLen + mintInputLen
    IN  inputPackOrdered(<<mintSignature, AddressHash(address),
                           BigFillBytes(amount, 32)>>, fullLen)

\* the calldata tail the dispatcher hands to a handler
CalldataTail(calldata) == SubSeq(calldata, selectorLen + 1, Len(calldata))

\* the arguments a caller may pack
CodecAddrs == AllAddrs

CodecAmounts ==
    {BigZero, <<1>>, Big500, <<1>> \o Zeros(HashLength - 1),
     <<128>> \o Zeros(HashLength - 1), MaxUint256}

\* the byte strings a caller may send
CodecLengths ==
    {0, 1, HashLength, mintInputLen - 1, mintInputLen, mintInputLen + 1,
     mintInputLen + selectorLen, feeConfigInputLen - 1, feeConfigInputLen,
     feeConfigInputLen + 1, feeConfigInputLen + selectorLen,
     feeConfigInputLen + feeConfigInputLen}

CodecFills == {0, 1, 255}

CodecRaw == {[i \in 1..n |-> f] : n \in CodecLengths, f \in CodecFills}

NoPacked == [ret |-> <<>>, err |-> ErrNil]

NoUnpacked == [err |-> ErrNil]

\* one application of the codec: the arguments, the byte string, and what
\* packing and unpacking returned
CodecCall(handler, to, amount, raw, packed, unpacked) ==
    [handler |-> handler, to |-> to, amount |-> amount, raw |-> raw,
     packed |-> packed, unpacked |-> unpacked]

CodecInit ==
    /\ \E to \in CodecAddrs, amount \in CodecAmounts, raw \in CodecRaw :
          last = CodecCall("args", to, amount, raw, NoPacked, NoUnpacked)
    /\ stateDB = EmptyStateDB
    /\ lastSet = NeverSet
    /\ ncalls = 0

PackMint ==
    /\ last.handler = "args"
    /\ last' = [last EXCEPT !.handler = "PackMintInput",
                            !.packed = PackMintInput(last.to, last.amount)]
    /\ ncalls' = ncalls + 1
    /\ UNCHANGED <<stateDB, lastSet>>

\* UnpackMintInput applied to what PackMintInput returned
UnpackPacked ==
    /\ last.handler = "PackMintInput"
    /\ last' = [last EXCEPT !.handler = "UnpackPacked",
                            !.unpacked = UnpackMintInput(last.packed.ret)]
    /\ ncalls' = ncalls + 1
    /\ UNCHANGED <<stateDB, lastSet>>

\* UnpackMintInput applied to what PackMintInput returned less its selector
UnpackTail ==
    /\ last.handler = "PackMintInput"
    /\ last' = [last EXCEPT !.handler = "UnpackTail",
                            !.unpacked = UnpackMintInput(CalldataTail(last.packed.ret))]
    /\ ncalls' = ncalls + 1
    /\ UNCHANGED <<stateDB, lastSet>>

UnpackMint ==
    /\ last.handler = "args"
    /\ last' = [last EXCEPT !.handler = "UnpackMintInput",
                            !.unpacked = UnpackMintInput(last.raw)]
    /\ ncalls' = ncalls + 1
    /\ UNCHANGED <<stateDB, lastSet>>

UnpackFeeConfig ==
    /\ last.handler = "args"
    /\ last' = [last EXCEPT !.handler = "UnpackFeeConfigInput",
                            !.unpacked = UnpackFeeConfigInput(last.raw)]
    /\ ncalls' = ncalls + 1
    /\ UNCHANGED <<stateDB, lastSet>>

CodecNext ==
    \/ PackMint
    \/ UnpackPacked
    \/ UnpackTail
    \/ UnpackMint
    \/ UnpackFeeConfig

SpecCodec == CodecInit /\ [][CodecNext]_vars

\* C13 as stated: UnpackMintInput applied to the bytes PackMintInput
\* returns gives back the address and the amount that were packed.
C13_AsStated ==
    last.handler = "UnpackPacked" =>
        /\ last.unpacked.err = ErrNil
        /\ last.unpacked.to = last.to
        /\ last.unpacked.amount = last.amount

\* C13 amended: PackMintInput returns the 4-byte selector followed by 64
\* bytes, and UnpackMintInput applied to those 64 bytes, the selector
\* removed, gives back the address and the amount that were packed.
C13_RoundTrip ==
    last.handler = "UnpackTail" =>
        /\ last.packed.err = ErrNil
        /\ Len(last.packed.ret) = selectorLen + mintInputLen
        /\ SubSeq(last.packed.ret, 1, selectorLen) = mintSignature
        /\ last.unpacked = [to |-> last.to, amount |-> last.amount, err |-> ErrNil]

\* C13 witness: 2^256 - 1 packed for a user address and unpacked again
C13_Witness ==
    /\ last.handler = "UnpackTail"
    /\ last.to = AddrD
    /\ last.amount = MaxUint256
    /\ last.unpacked.to = AddrD
    /\ last.unpacked.amount = MaxUint256
    /\ last.unpacked.err = ErrNil

\* C14: UnpackMintInput fails with InvalidInputLength exactly on the inputs
\* whose length is not 64, and UnpackFeeConfigInput exactly on the inputs
\* whose length is not 256.
C14_LengthErrors ==
    /\ last.handler = "UnpackMintInput" =>
          IF Len(last.raw) = 64
          THEN last.unpacked.err = ErrNil
          ELSE last.unpacked.err = ErrInvalidInputLength
    /\ last.handler = "UnpackFeeConfigInput" =>
          IF Len(last.raw) = 256
          THEN last.unpacked.err = ErrNil
          ELSE last.unpacked.err = ErrInvalidInputLength

\* C14 witness: a 65-byte input was refused by UnpackMintInput
C14_Witness ==
    /\ last.handler = "UnpackMintInput"
    /\ Len(last.raw) = 65
    /\ last.unpacked.err = ErrInvalidInputLength

\* the key of fee-config slot i
FeeSlot(i) == HashLiteral(i)

\* C15: GetFeeConfig never returns an error; when the FeeConfigManager
\* account does not exist it returns the unset configuration, and otherwise
\* the 8 fields are the values of slots 0..7 in the fixed order.
C15_GetFeeConfigTotal ==
    last.handler = "getFeeConfig" =>
        /\ last.err = ErrNil
        /\ IF ~Exist(stateDB, FeeConfigManagerAddress)
           THEN last.feeConfig = EmptyFeeConfig
           ELSE \A k \in 1..8 :
                   last.feeConfig[FeeConfigFields[k]] =
                       WordValue(GetState(stateDB, FeeConfigManagerAddress,
                                          FeeSlot(k - 1)))

\* C15 witness: the configuration was read back after it had been stored,
\* and differs from the unset one in every field
C15_Witness ==
    /\ last.handler = "getFeeConfig"
    /\ last.err = ErrNil
    /\ Exist(stateDB, FeeConfigManagerAddress)
    /\ last.feeConfig = MaxConfig

RoleSetters == {"setAdmin", "setEnabled", "setNone"}

\* C17: a successful setFeeConfig call leaves the role of every address on
\* FeeConfigManager, the all-zero address included, as it was.
C17_FeeConfigKeepsRoles ==
    last.handler = "setFeeConfig" /\ last.err = ErrNil =>
        \A a \in Users :
            GetFeeConfigManagerStatus(stateDB, a) =
                GetFeeConfigManagerStatus(last.pre, a)

\* C18: a successful role write on FeeConfigManager, for every subject
\* address, the all-zero address included, leaves the configuration that
\* GetFeeConfig returns as it was.
C18_RoleWriteKeepsFeeConfig ==
    last.handler \in RoleSetters /\ last.addr = FeeConfigManagerAddress
        /\ last.err = ErrNil =>
        GetFeeConfig(stateDB) = GetFeeConfig(last.pre)

\* C19: over every call, no balance decreases and no account stops
\* existing; a balance changes only in a successful mint, only for the
\* receiver, and by the amount; a failed call changes no balance and no
\* account's existence.
C19_BalancesOnlyGrow ==
    last.handler \in Handlers =>
        /\ \A a \in AllAddrs :
              /\ BigLeq(GetBalance(last.pre, a), GetBalance(stateDB, a))
              /\ (Exist(last.pre, a) => Exist(stateDB, a))
              /\ (GetBalance(stateDB, a) # GetBalance(last.pre, a) =>
                    /\ last.handler = "mint"
                    /\ last.err = ErrNil
                    /\ a = MintTo
                    /\ IsSum(GetBalance(last.pre, a), MintAmount,
                             GetBalance(stateDB, a)))
        /\ (last.err # ErrNil =>
              \A a \in AllAddrs :
                  /\ GetBalance(stateDB, a) = GetBalance(last.pre, a)
                  /\ Exist(stateDB, a) = Exist(last.pre, a))

\* C19 witness: D was credited 2^256 - 1, and then a mint to the absent E
\* by a caller whose role is None was refused; D's balance is as it was and
\* E is still absent
C19_Witness ==
    /\ MintDecoded
    /\ MintTo = AddrE
    /\ MintAmount # BigZero
    /\ last.err = ErrPermissionDenied
    /\ ~Exist(stateDB, AddrE)
    /\ GetBalance(last.pre, AddrD) = MaxUint256
    /\ GetBalance(stateDB, AddrD) = MaxUint256

\* the keys the read loop visits from key i on, in the order of the visits
RECURSIVE GetFeeConfigKeysFrom(_)
GetFeeConfigKeysFrom(i) ==
    IF i > maxKey THEN <<>>
    ELSE IF getFeeConfigField(i) = "default" THEN <<i>>
    ELSE <<i>> \o GetFeeConfigKeysFrom(i + 1)

\* the keys the write loop visits from key i on, in the order of the visits
RECURSIVE setFeeConfigKeysFrom(_)
setFeeConfigKeysFrom(i) ==
    IF i > maxKey THEN <<>>
    ELSE IF setFeeConfigField(i) = "default" THEN <<i>>
    ELSE <<i>> \o setFeeConfigKeysFrom(i + 1)

\* the slots of FeeConfigManager whose value differs between two states
ChangedSlots(st1, st2) ==
    {k \in DOMAIN st1.storage[FeeConfigManagerAddress]
           \cup DOMAIN st2.storage[FeeConfigManagerAddress] :
        GetState(st1, FeeConfigManagerAddress, k)
            # GetState(st2, FeeConfigManagerAddress, k)}

\* C20: the read loop and the write loop visit the keys 0,1,...,7 in
\* increasing order, once each; in no reachable state does GetFeeConfig or
\* setFeeConfig return the unknown-field-key error, so the error that
\* createSetFeeConfig discards is nil, and a write touches slots 0..7 only.
C20_NoUnknownFieldKey ==
    /\ GetFeeConfigKeysFrom(minKey) = <<0, 1, 2, 3, 4, 5, 6, 7>>
    /\ setFeeConfigKeysFrom(minKey) = <<0, 1, 2, 3, 4, 5, 6, 7>>
    /\ GetFeeConfig(stateDB).err # ErrUnknownFieldKey
    /\ setFeeConfig(stateDB, MaxConfig).err = ErrNil
    /\ (FeeConfigDecoded /\ IsEnabled(CallerRole) =>
          /\ setFeeConfig(last.pre, UnpackFeeConfigInput(last.input).feeConfig).err
                 = ErrNil
          /\ ChangedSlots(last.pre, stateDB) \subseteq {FeeSlot(i) : i \in 0..7})

\* C20 witness: a write replaced all 8 stored fields
C20_Witness ==
    /\ FeeConfigDecoded
    /\ IsEnabled(CallerRole)
    /\ last.err = ErrNil
    /\ ChangedSlots(last.pre, stateDB) = {FeeSlot(i) : i \in 0..7}
    /\ ChangedSlots(EmptyStateDB, last.pre) \cap {FeeSlot(i) : i \in 1..7} # {}

====
